---------------------------- MODULE Spec2Model ----------------------------
(***************************************************************************)
(* A model of the CoolerDash LCD daemon (damachine/aiolcdcam):             *)
(*   display.c       colour mapping, change gate, render + upload pipeline *)
(*   coolercontrol.c HTTP session, upload, device discovery                *)
(*   main.c          daemon loop                                           *)
(* Temperatures are fixed-point integers in tenths of a degree Celsius:    *)
(* 55.0 C is 550, 54.9 C is 549.                                           *)
(***************************************************************************)
EXTENDS Integers, Sequences, FiniteSets, TLC

VARIABLES
    \* ---- display.c: lerp_temp_color under test
    color_val,            \* the argument of the last lerp_temp_color call
    color_out,            \* the bucket it returned (-1: not called yet)
    \* ---- display.c: draw_temperature_bars under test
    bar_call,             \* the last bar drawn: its temperature and fill widths
    \* ---- display.c: should_update_display statics
    first_run,            \* static int first_run
    last_data,            \* static sensor_data_t last_data
    gate_call,            \* the last call of should_update_display
    \* ---- coolercontrol.c: statics and the files and handles they name
    curl_handle,          \* static CURL *curl_handle (0: NULL, else a handle id)
    cookie_jar,           \* static char cookie_jar[256] ("": never set)
    session_initialized,  \* static int session_initialized
    cleanup_done,         \* static int cleanup_done of cleanup_coolercontrol_session
    cached_device_uid,    \* static char cached_device_uid[128]
    cookie_file,          \* whether the cookie-jar file exists on disk
    handles,              \* number of handles curl_easy_init has returned
    released,             \* handle ids passed to curl_easy_cleanup
    double_release,       \* whether a handle was passed to curl_easy_cleanup twice
    listed_uids,          \* uids of the Liquidctl devices the last answered /devices query listed
    api_call,             \* the last coolercontrol.c call: arguments, result, operations
    api_calls,            \* number of coolercontrol.c calls made
    \* ---- main.c: the daemon
    pc,                   \* where main is
    running,              \* static volatile sig_atomic_t running
    shutdown_sent,        \* static volatile sig_atomic_t shutdown_sent
    pid_file,             \* whether the PID file exists
    exit_code,            \* the status main returned (-1: still running)
    signals,              \* number of SIGTERM/SIGINT deliveries handled
    shutdown_requests,    \* number of PUT requests made with the shutdown image
    \* ---- display.c: the image file and the tick in progress
    disk_image,           \* what IMAGE_PATH holds
    tick,                 \* the current (or last) draw_combined_image call
    prev_tick,            \* summary of the draw_combined_image call before it
    \* ---- the shared handle under a signal that interrupts main
    \* ---- coolercontrol.c: the request send_image_to_lcd builds
    upload_form,          \* the last upload request built, with the inputs it was built from
    in_flight,            \* 1 while main is inside curl_easy_perform(curl_handle)
    overlapped,           \* whether a request was started on curl_handle during another
    \* ---- main.c: instances of the daemon and the PID file they share
    inst,                 \* per process: how far its main got, and how it was started
    pid_content,          \* what the PID file holds ("absent": no file)
    check_call,           \* the last check_existing_instance_and_handle call
    \* ---- gpu_monitor.c: statics
    gpu_available,        \* static int gpu_available (-1: unknown)
    last_update_ms,       \* static long long last_update_ms of read_gpu_temp
    cached_temp,          \* static float cached_temp of read_gpu_temp
    gpu_call,             \* the last init_gpu_monitor or read_gpu_temp call
    \* ---- coolercontrol.c: the response buffer of parse_device_fields
    response,             \* struct http_response response: data (size + 1 bytes) and size
    arrived,              \* the bytes of the chunks stored so far, in arrival order
    cb_call               \* the last write_callback call

colorVars == <<color_val, color_out>>
gateVars == <<first_run, last_data, gate_call>>
sessVars == <<curl_handle, cookie_jar, session_initialized, cleanup_done,
              cached_device_uid, cookie_file, handles, released, double_release,
              listed_uids, api_call>>
vars == <<color_val, color_out, first_run, last_data, gate_call,
          curl_handle, cookie_jar, session_initialized, cleanup_done,
          cached_device_uid, cookie_file, handles, released, double_release,
          listed_uids, api_call, api_calls,
          pc, running, shutdown_sent, pid_file, exit_code, signals,
          shutdown_requests, disk_image, tick, prev_tick,
          in_flight, overlapped, upload_form, bar_call,
          inst, pid_content, check_call,
          gpu_available, last_update_ms, cached_temp, gpu_call,
          response, arrived, cb_call>>
mainVars == <<pc, running, shutdown_sent, pid_file, exit_code, signals,
              shutdown_requests>>
pipeVars == <<disk_image, tick, prev_tick>>
flightVars == <<in_flight, overlapped>>

NoCall == [fn |-> "none"]

\* ------------------------------------------------------------------------
\* display.c: lerp_temp_color
\* ------------------------------------------------------------------------

TEMP_THRESHOLD_GREEN == 550
TEMP_THRESHOLD_ORANGE == 650
TEMP_THRESHOLD_RED == 750

\* Half-width of the window of temperatures tried around each threshold.
ColorWindow == 20

ColorTemps ==
    UNION { (t - ColorWindow)..(t + ColorWindow) :
            t \in {TEMP_THRESHOLD_GREEN, TEMP_THRESHOLD_ORANGE, TEMP_THRESHOLD_RED} }
    \cup {-10, 0, 1000, 1200}

\* Buckets: 0 COLOR_GREEN, 1 COLOR_ORANGE, 2 COLOR_HOT_ORANGE, 3 COLOR_RED.
lerp_temp_color_strict(val) ==
    IF val < TEMP_THRESHOLD_GREEN THEN 0
    ELSE IF val < TEMP_THRESHOLD_ORANGE THEN 1
    ELSE IF val < TEMP_THRESHOLD_RED THEN 2
    ELSE 3

lerp_temp_color(val) ==
    IF val <= TEMP_THRESHOLD_GREEN THEN 0
    ELSE IF val <= TEMP_THRESHOLD_ORANGE THEN 1
    ELSE IF val <= TEMP_THRESHOLD_RED THEN 2
    ELSE 3

ColorInit ==
    /\ color_val = 0
    /\ color_out = -1

ColorIdle == UNCHANGED colorVars

ColorCall(val) ==
    /\ color_val' = val
    /\ color_out' = lerp_temp_color(val)

\* ------------------------------------------------------------------------
\* display.c: should_update_display
\* ------------------------------------------------------------------------

\* ---- display.c: draw_temperature_bars

BAR_WIDTH == 230

\* Temperatures tried reach BarWindow tenths of a degree to each side of 0 C
\* and of 100 C.
BarWindow == 30

\* The largest reading read_cpu_temp can return: INT_MAX millidegrees.
MaxSensorTemp == 21474836

BarTemps ==
    (-BarWindow .. BarWindow) \cup ((1000 - BarWindow) .. (1000 + BarWindow))
        \cup {-MaxSensorTemp, 500, 555, MaxSensorTemp}

\* display.c:156: (temp > 0.0f) ? (int)((temp / 100.0f) * BAR_WIDTH) : 0,
\* the cast truncating toward zero. With temp in tenths the product is
\* temp * BAR_WIDTH / 1000, computed here from the whole hundreds of degrees
\* and the rest.
bar_val_w(temp) ==
    IF temp > 0
    THEN (temp \div 1000) * BAR_WIDTH + ((temp % 1000) * BAR_WIDTH) \div 1000
    ELSE 0

\* A fill width without the upper limit.
bar_safe_val_w_no_upper(val_w) == IF val_w < 0 THEN 0 ELSE val_w

\* display.c:158: (val_w < 0) ? 0 : (val_w > BAR_WIDTH) ? BAR_WIDTH : val_w
bar_safe_val_w(val_w) ==
    IF val_w < 0 THEN 0 ELSE IF val_w > BAR_WIDTH THEN BAR_WIDTH ELSE val_w

NoBar == [temp |-> 0, val_w |-> -1, safe_val_w |-> -1]

BarInit == bar_call = NoBar

BarIdle == UNCHANGED bar_call

\* One bar of draw_temperature_bars (the CPU and the GPU bar are drawn by
\* the same statements).
draw_temperature_bar(temp) ==
    bar_call' = [temp |-> temp, val_w |-> bar_val_w(temp),
                 safe_val_w |-> bar_safe_val_w(bar_val_w(temp))]

CHANGE_TOLERANCE_TEMP == 10
CHANGE_TOLERANCE_USAGE == 10

\* Sensor values tried: multiples of half a tolerance, 0 .. MaxSteps halves,
\* so that deltas below, at and above the tolerance all occur.
MaxSteps == 3

TempStep == CHANGE_TOLERANCE_TEMP \div 2
TempValues == { TempStep * k : k \in 0..MaxSteps }
UsageValues == { 0, CHANGE_TOLERANCE_USAGE, 2 * CHANGE_TOLERANCE_USAGE }

fabsf(x) == IF x < 0 THEN -x ELSE x

SensorData(ct, gt, co, cu, ru, gu, gr) ==
    [cpu_temp |-> ct, gpu_temp |-> gt, coolant_temp |-> co,
     cpu_usage |-> cu, ram_usage |-> ru, gpu_usage |-> gu, gpu_ram_usage |-> gr]

\* static sensor_data_t last_data = {-1.0f, ...}
LastDataInit == SensorData(-10, -10, -10, -10, -10, -10, -10)

TempChangedInclusive(a, b) == fabsf(a - b) >= CHANGE_TOLERANCE_TEMP

TempChanged(a, b) == fabsf(a - b) > CHANGE_TOLERANCE_TEMP

UsageChanged(a, b) == fabsf(a - b) > CHANGE_TOLERANCE_USAGE

SignificantChange(data, last) ==
    \/ TempChanged(data.cpu_temp, last.cpu_temp)
    \/ TempChanged(data.gpu_temp, last.gpu_temp)
    \/ TempChanged(data.coolant_temp, last.coolant_temp)
    \/ UsageChanged(data.cpu_usage, last.cpu_usage)
    \/ UsageChanged(data.gpu_usage, last.gpu_usage)
    \/ UsageChanged(data.ram_usage, last.ram_usage)
    \/ UsageChanged(data.gpu_ram_usage, last.gpu_ram_usage)

\* The value should_update_display returns for data in the current state.
should_update_return(data) ==
    IF first_run = 1 THEN 1
    ELSE IF SignificantChange(data, last_data) THEN 1
    ELSE 0

\* A gate that forgets to clear first_run.
should_update_display_keeps_first(data) ==
    /\ first_run' = first_run
    /\ last_data' = IF should_update_return(data) = 1 THEN data ELSE last_data
    /\ gate_call' = [fn |-> "should_update_display", data |-> data,
                     first |-> first_run, prev |-> last_data,
                     ret |-> should_update_return(data)]

\* A gate that stores every sample, accepted or not.
should_update_display_stores_all(data) ==
    /\ first_run' = 0
    /\ last_data' = data
    /\ gate_call' = [fn |-> "should_update_display", data |-> data,
                     first |-> first_run, prev |-> last_data,
                     ret |-> should_update_return(data)]

should_update_display(data) ==
    /\ first_run' = 0
    /\ last_data' = IF should_update_return(data) = 1 THEN data ELSE last_data
    /\ gate_call' = [fn |-> "should_update_display", data |-> data,
                     first |-> first_run, prev |-> last_data,
                     ret |-> should_update_return(data)]

GateInit ==
    /\ first_run = 1
    /\ last_data = LastDataInit
    /\ gate_call = NoCall

GateIdle == UNCHANGED gateVars

\* The snapshots draw_combined_image builds in DISPLAY_MODE_DEF: three
\* temperatures read from the sensors, the four usage fields 0.0f.
DefSnapshots ==
    { SensorData(ct, gt, co, 0, 0, 0, 0) :
        ct \in TempValues, gt \in TempValues, co \in TempValues }

\* Snapshots that vary the usage fields only (modes 1, 2, 3).
UsageSnapshots ==
    { SensorData(0, 0, 0, cu, ru, gu, gr) :
        cu \in UsageValues, ru \in {0, 2 * CHANGE_TOLERANCE_USAGE},
        gu \in {0, 2 * CHANGE_TOLERANCE_USAGE}, gr \in {0, 2 * CHANGE_TOLERANCE_USAGE} }

GateSnapshots == DefSnapshots \cup UsageSnapshots

\* ------------------------------------------------------------------------
\* coolercontrol.c: session, upload, device discovery
\* ------------------------------------------------------------------------

\* Number of coolercontrol.c calls a behaviour of SpecSession makes.
MaxApiCalls == 4

NULL == 0
CurlResults == {"CURLE_OK", "CURLE_FAIL"}
\* Response codes tried; 0 is what CURLINFO_RESPONSE_CODE gives without a response.
HttpCodes == {0, 200, 204, 401}
\* A completed transfer carries a response code; a failed one carries none
\* (0) or the one received before the transfer broke.
ResponseCodes(res) == IF res = "CURLE_OK" THEN HttpCodes \ {0} ELSE {0, 200}

IMAGE_PATH == "coolerdash.png"
SHUTDOWN_IMAGE_PATH == "shutdown.png"
KRAKEN_UID == "uidA"
ImagePaths == {"NULL", IMAGE_PATH, SHUTDOWN_IMAGE_PATH}
DeviceUids == {"NULL", "uidA", "uidB"}

Device(type, uid, name) == [type |-> type, uid |-> uid, name |-> name]

\* /devices response bodies tried: lists of device objects, each with a
\* "type", a "uid" (possibly the empty string) and, unless "NONE", a "name".
DeviceLists ==
    { <<>>,
      <<Device("Liquidctl", "uidA", "Kraken")>>,
      <<Device("Hwmon", "uidB", "cpu"), Device("Liquidctl", "uidA", "Kraken")>>,
      <<Device("Liquidctl", "uidB", "NONE"), Device("Liquidctl", "uidA", "Kraken")>>,
      <<Device("Liquidctl", "", "Kraken")>>,
      <<Device("Hwmon", "uidB", "cpu")>> }

PreState ==
    [curl_handle |-> curl_handle, session_initialized |-> session_initialized,
     cleanup_done |-> cleanup_done, cookie_file |-> cookie_file,
     cached_device_uid |-> cached_device_uid, after |-> api_call.fn]

\* coolercontrol.c:159
LoginSucceeded200Only(res, code) == res = "CURLE_OK" /\ code = 200

LoginSucceeded(res, code) == res = "CURLE_OK" /\ (code = 200 \/ code = 204)

init_coolercontrol_session(easy_ok, res, code) ==
    /\ handles' = IF easy_ok THEN handles + 1 ELSE handles
    /\ curl_handle' = IF easy_ok THEN handles + 1 ELSE NULL
    /\ cookie_jar' = IF easy_ok THEN "/tmp/lcd_cookie_pid.txt" ELSE cookie_jar
    /\ session_initialized' =
         IF easy_ok /\ LoginSucceeded(res, code) THEN 1 ELSE session_initialized
    /\ api_call' = [fn |-> "init_coolercontrol_session", pre |-> PreState,
                    easy_ok |-> easy_ok, res |-> res, code |-> code,
                    ops |-> <<"curl_global_init">>
                            \o (IF easy_ok THEN <<"POST /login">> ELSE <<>>),
                    ret |-> IF easy_ok /\ LoginSucceeded(res, code) THEN 1 ELSE 0]
    /\ UNCHANGED <<cleanup_done, cached_device_uid, cookie_file, released,
                   double_release, listed_uids>>

\* coolercontrol.c:182
SendGuardNoSession(image_path, device_uid) ==
    curl_handle = NULL \/ image_path = "NULL" \/ device_uid = "NULL"

SendGuard(image_path, device_uid) ==
    \/ curl_handle = NULL
    \/ image_path = "NULL"
    \/ device_uid = "NULL"
    \/ session_initialized = 0

UploadSucceeded200Or204(res, code) == res = "CURLE_OK" /\ code \in {200, 204}

\* coolercontrol.c:259
UploadSucceeded(res, code) == res = "CURLE_OK" /\ code = 200

send_image_to_lcd_return(image_path, device_uid, res, code) ==
    IF SendGuard(image_path, device_uid) THEN 0
    ELSE IF UploadSucceeded(res, code) THEN 1 ELSE 0

send_image_to_lcd_record(fn, image_path, device_uid, res, code) ==
    [fn |-> fn, pre |-> PreState,
     image_path |-> image_path, device_uid |-> device_uid,
     res |-> res, code |-> code,
     ops |-> IF SendGuard(image_path, device_uid) THEN <<>>
             ELSE <<"PUT /devices/" \o device_uid \o "/settings/lcd/lcd/images">>,
     ret |-> send_image_to_lcd_return(image_path, device_uid, res, code)]

send_image_to_lcd(image_path, device_uid, res, code) ==
    /\ api_call' = send_image_to_lcd_record("send_image_to_lcd", image_path,
                                            device_uid, res, code)
    /\ UNCHANGED <<curl_handle, cookie_jar, session_initialized, cleanup_done,
                   cached_device_uid, cookie_file, handles, released,
                   double_release, listed_uids>>

upload_image_to_device(image_path, device_uid, res, code) ==
    /\ api_call' = send_image_to_lcd_record("upload_image_to_device", image_path,
                                            device_uid, res, code)
    /\ UNCHANGED <<curl_handle, cookie_jar, session_initialized, cleanup_done,
                   cached_device_uid, cookie_file, handles, released,
                   double_release, listed_uids>>

\* sizeof(upload_url), sizeof(brightness_str) and sizeof(orientation_str)
UploadUrlSize == 256
FieldStrSize == 8

DigitChars == <<"0", "1", "2", "3", "4", "5", "6", "7", "8", "9">>

\* printf's %d conversion of an int.
RECURSIVE UnsignedDecimal(_)
UnsignedDecimal(n) ==
    IF n < 10 THEN DigitChars[n + 1]
    ELSE UnsignedDecimal(n \div 10) \o DigitChars[(n % 10) + 1]

FormatD(n) == IF n < 0 THEN "-" \o UnsignedDecimal(-n) ELSE UnsignedDecimal(n)

\* An snprintf into a two-byte buffer.
snprintf_one_char(size, text) == SubSeq(text, 1, 1)

\* snprintf(buf, size, ...): at most size - 1 characters of the text are kept.
snprintf(size, text) ==
    IF Len(text) < size THEN text ELSE SubSeq(text, 1, size - 1)

\* Configurations tried: config.h documents lcd_brightness as 0-100 and
\* lcd_orientation as 0, 90, 180 or 270.
LcdBrightness == {0, 5, 80, 100}
LcdOrientation == {0, 90, 180, 270}
DaemonAddresses == {"http://localhost:11987", "http://10.0.0.2:80"}

\* coolercontrol.c:184-246: what send_image_to_lcd hands to curl_easy_perform
\* once its guard has passed.
upload_request(daemon_address, lcd_brightness, lcd_orientation, image_path, device_uid) ==
    [method |-> "PUT",
     url |-> snprintf(UploadUrlSize,
                      daemon_address \o "/devices/" \o device_uid
                          \o "/settings/lcd/lcd/images"),
     form |-> << [name |-> "mode", data |-> "image"],
                 [name |-> "brightness",
                  data |-> snprintf(FieldStrSize, FormatD(lcd_brightness))],
                 [name |-> "orientation",
                  data |-> snprintf(FieldStrSize, FormatD(lcd_orientation))],
                 [name |-> "images[]", filedata |-> image_path,
                  type |-> "image/png"] >>]

NoForm == [fn |-> "none"]

FormInit == upload_form = NoForm

FormIdle == UNCHANGED upload_form

send_image_to_lcd_form(daemon_address, lcd_brightness, lcd_orientation, image_path, device_uid) ==
    upload_form' =
        [fn |-> "send_image_to_lcd", daemon_address |-> daemon_address,
         lcd_brightness |-> lcd_brightness, lcd_orientation |-> lcd_orientation,
         image_path |-> image_path, device_uid |-> device_uid,
         request |-> upload_request(daemon_address, lcd_brightness,
                                    lcd_orientation, image_path, device_uid)]

\* A cleanup that ignores its cleanup_done guard.
cleanup_coolercontrol_session_unguarded(jar_written, unlink_ok) ==
    LET file == IF curl_handle # NULL /\ jar_written THEN TRUE ELSE cookie_file
        unlinked == cookie_jar # "" /\ file /\ unlink_ok
    IN  /\ curl_handle' = NULL
        /\ released' = IF curl_handle # NULL THEN released \cup {curl_handle}
                       ELSE released
        /\ double_release' = (double_release
                              \/ (curl_handle # NULL /\ curl_handle \in released))
        /\ cookie_file' = IF unlinked THEN FALSE ELSE file
        /\ session_initialized' = 0
        /\ cleanup_done' = IF unlinked THEN 1 ELSE cleanup_done
        /\ api_call' = [fn |-> "cleanup_coolercontrol_session", pre |-> PreState,
                        unlinked |-> unlinked,
                        ops |-> (IF curl_handle # NULL THEN <<"curl_easy_cleanup">>
                                 ELSE <<>>)
                                \o <<"curl_global_cleanup", "unlink">>,
                        ret |-> 0]
            /\ UNCHANGED <<cookie_jar, cached_device_uid, handles, listed_uids>>

\* jar_written: curl_easy_cleanup wrote the cookie jar (it does when it holds
\* cookies); unlink_ok: the file system lets unlink remove an existing file.
cleanup_coolercontrol_session(jar_written, unlink_ok) ==
    IF cleanup_done = 1
    THEN /\ api_call' = [fn |-> "cleanup_coolercontrol_session", pre |-> PreState,
                         unlinked |-> FALSE, ops |-> <<>>, ret |-> 0]
              /\ UNCHANGED <<curl_handle, cookie_jar, session_initialized, cleanup_done,
                        cached_device_uid, cookie_file, handles, released,
                        double_release, listed_uids>>
    ELSE cleanup_coolercontrol_session_unguarded(jar_written, unlink_ok)

is_session_initialized == session_initialized

\* parse_device_fields, the scan of the response body from device object i on:
\* the first Liquidctl object from which a requested field is extracted.
RECURSIVE ScanDevices(_, _, _, _)
ScanDevices(body, i, want_name, want_uid) ==
    IF i > Len(body) THEN [found |-> 0, name |-> "NULL", uid |-> "NULL"]
    ELSE LET d == body[i]
             got_name == want_name /\ d.name # "NONE"
             got_uid == want_uid
         IN  IF d.type = "Liquidctl" /\ (got_name \/ got_uid)
             THEN [found |-> 1,
                   name |-> IF got_name THEN d.name ELSE "NULL",
                   uid |-> IF got_uid THEN d.uid ELSE "NULL"]
             ELSE ScanDevices(body, i + 1, want_name, want_uid)

parse_device_fields(want_name, want_uid, res, code, body) ==
    IF res = "CURLE_OK" /\ code = 200
    THEN ScanDevices(body, 1, want_name, want_uid)
    ELSE [found |-> 0, name |-> "NULL", uid |-> "NULL"]

\* coolercontrol.c:444, 466 (the buffers passed are never NULL or empty here)
DeviceGuard == curl_handle = NULL \/ session_initialized = 0

\* The Liquidctl uids of the response, when the query was made and answered 200.
DevicesListed(res, code, body) ==
    IF DeviceGuard \/ ~(res = "CURLE_OK" /\ code = 200) THEN listed_uids
    ELSE { body[i].uid : i \in { j \in 1..Len(body) : body[j].type = "Liquidctl" } }

get_device_record(fn, want_name, want_uid, res, code, body) ==
    LET parsed == parse_device_fields(want_name, want_uid, res, code, body)
    IN  [fn |-> fn, pre |-> PreState, res |-> res, code |-> code, body |-> body,
         ops |-> IF DeviceGuard THEN <<>> ELSE <<"GET /devices">>,
         name |-> IF DeviceGuard THEN "NULL" ELSE parsed.name,
         uid |-> IF DeviceGuard THEN "NULL" ELSE parsed.uid,
         ret |-> IF DeviceGuard THEN 0 ELSE parsed.found]

get_device_name(res, code, body) ==
    /\ api_call' = get_device_record("get_device_name", TRUE, FALSE, res, code, body)
    /\ listed_uids' = DevicesListed(res, code, body)
    /\ UNCHANGED <<curl_handle, cookie_jar, session_initialized, cleanup_done,
                   cached_device_uid, cookie_file, handles, released,
                   double_release>>

\* A get_device_uid that drops the cached uid when the response it got no
\* longer lists it.
get_device_uid_invalidating(res, code, body) ==
    /\ api_call' = get_device_record("get_device_uid", FALSE, TRUE, res, code, body)
    /\ listed_uids' = DevicesListed(res, code, body)
    /\ cached_device_uid' = IF cached_device_uid \in DevicesListed(res, code, body)
                            THEN cached_device_uid ELSE ""
    /\ UNCHANGED <<curl_handle, cookie_jar, session_initialized, cleanup_done,
                   cookie_file, handles, released, double_release>>

get_device_uid(res, code, body) ==
    /\ api_call' = get_device_record("get_device_uid", FALSE, TRUE, res, code, body)
    /\ listed_uids' = DevicesListed(res, code, body)
    /\ UNCHANGED <<curl_handle, cookie_jar, session_initialized, cleanup_done,
                   cached_device_uid, cookie_file, handles, released,
                   double_release>>

\* A caching that falls back to the configured uid when discovery finds none.
init_cached_device_uid_fallback(res, code, body) ==
    LET r == get_device_record("init_cached_device_uid", FALSE, TRUE, res, code, body)
        uid == IF r.ret = 1 /\ r.uid # "" THEN r.uid ELSE KRAKEN_UID
    IN  /\ cached_device_uid' = uid
        /\ listed_uids' = DevicesListed(res, code, body)
        /\ api_call' = [r EXCEPT !.ret = 1]
        /\ UNCHANGED <<curl_handle, cookie_jar, session_initialized, cleanup_done,
                       cookie_file, handles, released, double_release>>

\* get_device_uid writes into cached_device_uid itself; the buffer keeps its
\* content when nothing is found.
init_cached_device_uid(res, code, body) ==
    LET r == get_device_record("init_cached_device_uid", FALSE, TRUE, res, code, body)
        uid == IF r.ret = 1 THEN r.uid ELSE cached_device_uid
    IN  /\ cached_device_uid' = uid
        /\ listed_uids' = DevicesListed(res, code, body)
        /\ api_call' = [r EXCEPT !.ret = IF r.ret = 0 \/ uid = "" THEN 0 ELSE 1]
            /\ UNCHANGED <<curl_handle, cookie_jar, session_initialized, cleanup_done,
                       cookie_file, handles, released, double_release>>

get_cached_device_uid == cached_device_uid

SessInit ==
    /\ curl_handle = NULL
    /\ cookie_jar = ""
    /\ session_initialized = 0
    /\ cleanup_done = 0
    /\ cached_device_uid = ""
    /\ cookie_file = FALSE
    /\ handles = 0
    /\ released = {}
    /\ double_release = FALSE
    /\ listed_uids = {}
    /\ api_call = NoCall

SessIdle == UNCHANGED sessVars

\* A restart that finds the uid of the process before it.
process_restart_keeps_uid ==
    /\ curl_handle' = NULL
    /\ cookie_jar' = ""
    /\ session_initialized' = 0
    /\ cleanup_done' = 0
    /\ cookie_file' = FALSE
    /\ handles' = 0
    /\ released' = {}
    /\ listed_uids' = {}
    /\ api_call' = [fn |-> "restart", pre |-> PreState, ops |-> <<>>, ret |-> 0]
    /\ UNCHANGED <<cached_device_uid, double_release>>

\* The process ends and a new one starts: every static of coolercontrol.c has
\* its initialiser again (coolercontrol.c:102-104, 120, 291), the new
\* process's cookie jar does not exist yet, and nothing of the old process's
\* memory is read back.
process_restart ==
    /\ curl_handle' = NULL
    /\ cookie_jar' = ""
    /\ session_initialized' = 0
    /\ cleanup_done' = 0
    /\ cached_device_uid' = ""
    /\ cookie_file' = FALSE
    /\ handles' = 0
    /\ released' = {}
    /\ listed_uids' = {}
    /\ api_call' = [fn |-> "restart", pre |-> PreState, ops |-> <<>>, ret |-> 0]
    /\ UNCHANGED double_release

\* ------------------------------------------------------------------------
\* display.c: render_display, draw_combined_image
\* ------------------------------------------------------------------------

\* main.c never calls init_coolant_sensor_path, so coolant_temp_path stays
\* empty and read_coolant_temp returns 0.0f (coolant_monitor.c:110).
read_coolant_temp == 0

\* What building and writing the image ends with: success, a failure that
\* leaves the file as it was (no surface, no context, file not opened), or a
\* failure of cairo_surface_write_to_png after it truncated the file.
ComposeOutcomes == {"CAIRO_STATUS_SUCCESS", "create_failed", "png_write_failed"}

NoImage == [state |-> "none", data |-> LastDataInit]

NoTick ==
    [data |-> LastDataInit, gate |-> -1, compose |-> "none", wrote |-> FALSE,
     ready |-> FALSE, rd_sends |-> <<>>, rd_requests |-> 0, render_result |-> -1,
     dci_calls |-> 0, dci_requests |-> 0, same_as_prev |-> FALSE]

NoPrevTick == [gate |-> -1, wrote |-> FALSE, requests |-> 0]

TickRequests == tick.rd_requests + tick.dci_requests

PipeInit ==
    /\ disk_image = NoImage
    /\ tick = NoTick
    /\ prev_tick = NoPrevTick

PipeIdle == UNCHANGED pipeVars

\* display.c:134: for (int i = 0; i < 2; ++i) send_image_to_lcd(...): where
\* render_display goes after the first send returned ret.
AfterFirstSendOnFailureOnly(ret) == IF ret = 0 THEN "rd_send2" ELSE "dci_upload"

AfterFirstSend(ret) == "rd_send2"

\* A draw_combined_image whose caller gives up after a failed render.
AfterRenderFatal(render_result) ==
    IF render_result = 0 THEN "final_send" ELSE "dci_upload"

\* display.c:494: draw_combined_image returns without uploading iff
\* render_display returned 0.
AfterRender(render_result) == IF render_result = 0 THEN "sleep" ELSE "dci_upload"

\* draw_combined_image up to the end of render_display's PNG write: read the
\* sensors (DISPLAY_MODE_DEF: usage fields 0.0f), ask the change gate, build
\* the image, write it.
draw_combined_image_render(cpu_temp, gpu_temp, outcome) ==
    LET data == SensorData(cpu_temp, gpu_temp, read_coolant_temp, 0, 0, 0, 0)
        accept == should_update_return(data) = 1
        compose == IF accept THEN outcome ELSE "skipped"
        wrote == compose = "CAIRO_STATUS_SUCCESS"
        ready == wrote /\ is_session_initialized = 1
        render_result == IF ~accept \/ wrote THEN 1 ELSE 0
    IN  /\ should_update_display(data)
        /\ disk_image' = IF wrote THEN [state |-> "png", data |-> data]
                         ELSE IF compose = "png_write_failed"
                              THEN [state |-> "partial", data |-> data]
                              ELSE disk_image
        /\ tick' = [data |-> data, gate |-> IF accept THEN 1 ELSE 0,
                    compose |-> compose, wrote |-> wrote, ready |-> ready,
                    rd_sends |-> <<>>, rd_requests |-> 0,
                    render_result |-> IF ready THEN -1 ELSE render_result,
                    dci_calls |-> 0, dci_requests |-> 0,
                    same_as_prev |-> (tick.gate # -1 /\ tick.data = data)]
        /\ prev_tick' = [gate |-> tick.gate, wrote |-> tick.wrote,
                         requests |-> TickRequests]
        /\ pc' = IF ready THEN "rd_send1" ELSE AfterRender(render_result)

\* render_display's first send_image_to_lcd(IMAGE_PATH, KRAKEN_UID).
render_display_send1(res, code) ==
    /\ send_image_to_lcd(IMAGE_PATH, KRAKEN_UID, res, code)
    /\ tick' = [tick EXCEPT !.rd_sends = Append(@, api_call'.ret),
                            !.rd_requests = @ + Len(api_call'.ops)]
    /\ pc' = AfterFirstSend(api_call'.ret)

\* Its second send, and its return (success = 1 was set before the sends).
render_display_send2(res, code) ==
    /\ send_image_to_lcd(IMAGE_PATH, KRAKEN_UID, res, code)
    /\ tick' = [tick EXCEPT !.rd_sends = Append(@, api_call'.ret),
                            !.rd_requests = @ + Len(api_call'.ops),
                            !.render_result = 1]
    /\ pc' = AfterRender(1)

\* display.c:500: upload_image_to_device(IMAGE_PATH, KRAKEN_UID).
draw_combined_image_upload(res, code) ==
    /\ upload_image_to_device(IMAGE_PATH, KRAKEN_UID, res, code)
    /\ tick' = [tick EXCEPT !.dci_calls = @ + 1,
                            !.dci_requests = @ + Len(api_call'.ops),
                            !.render_result = IF @ = -1 THEN 1 ELSE @]
    /\ pc' = "sleep"

\* ------------------------------------------------------------------------
\* main.c: main, run_daemon, cleanup_and_exit
\* ------------------------------------------------------------------------

\* Number of SIGTERM/SIGINT deliveries in a behaviour.
MaxSignals == 2

\* Sensor readings of a tick of the daemon.
TickCpuTemps == {0, TempStep, 3 * TempStep}
TickGpuTemps == {0, 3 * TempStep}

MainInit ==
    /\ pc = "init_session"
    /\ running = 1
    /\ shutdown_sent = 0
    /\ pid_file = TRUE
    /\ exit_code = -1
    /\ signals = 0
    /\ shutdown_requests = 0

MainIdle == UNCHANGED mainVars

FlightInit ==
    /\ in_flight = 0
    /\ overlapped = FALSE

FlightIdle == UNCHANGED flightVars

\* The call main was in has returned: none of its requests is in flight.
RequestReturns ==
    /\ in_flight' = 0
    /\ UNCHANGED overlapped

\* The next statement of main performs a request on curl_handle: the login
\* (coolercontrol.c:155), a device list (coolercontrol.c:366), an upload of
\* the tick (coolercontrol.c:249) or main's own shutdown send (main.c:410).
MainRequestPending ==
    \/ pc = "init_session"
    \/ pc \in {"get_device_uid", "get_device_name", "init_cached_device_uid"}
          /\ ~DeviceGuard
    \/ pc \in {"rd_send1", "rd_send2", "dci_upload"}
          /\ ~SendGuard(IMAGE_PATH, KRAKEN_UID)
    \/ pc = "final_send"
          /\ shutdown_sent = 0 /\ is_session_initialized = 1
          /\ get_cached_device_uid # ""

\* main has entered curl_easy_perform and the transfer has not returned yet.
main_curl_easy_perform ==
    /\ in_flight = 0
    /\ MainRequestPending
    /\ in_flight' = 1
    /\ UNCHANGED overlapped

\* The two send_image_to_lcd calls of a shutdown send: the second call's
\* record, and the number of requests the two made.
ShutdownSend(image, uid, res1, code1, res2, code2) ==
    /\ api_call' = send_image_to_lcd_record("send_image_to_lcd", image, uid,
                                            res2, code2)
    /\ shutdown_requests' = shutdown_requests
          + 2 * Len(send_image_to_lcd_record("send_image_to_lcd", image, uid,
                                             res1, code1).ops)
    /\ UNCHANGED <<curl_handle, cookie_jar, session_initialized, cleanup_done,
                   cached_device_uid, cookie_file, handles, released,
                   double_release, listed_uids>>

\* main.c:49: the SIGTERM/SIGINT handler.
cleanup_and_exit(res1, code1, res2, code2) ==
    /\ IF shutdown_sent = 0 /\ is_session_initialized = 1
       THEN IF get_cached_device_uid # ""
            THEN /\ ShutdownSend(SHUTDOWN_IMAGE_PATH, get_cached_device_uid,
                                 res1, code1, res2, code2)
                 /\ shutdown_sent' = 1
            ELSE /\ SessIdle
                 /\ UNCHANGED <<shutdown_sent, shutdown_requests>>
       ELSE /\ SessIdle
            /\ UNCHANGED <<shutdown_sent, shutdown_requests>>
    /\ pid_file' = FALSE
    /\ running' = 0

\* main.c:371: init_coolercontrol_session, fatal when it fails.
main_init_session(easy_ok, res, code) ==
    /\ pc = "init_session"
    /\ init_coolercontrol_session(easy_ok, res, code)
    /\ pc' = IF api_call'.ret = 1 THEN "get_device_uid" ELSE "exit"
    /\ exit_code' = IF api_call'.ret = 1 THEN exit_code ELSE 1
    /\ UNCHANGED <<running, shutdown_sent, pid_file, signals, shutdown_requests>>

\* main.c:377: get_device_uid into a local buffer, printed only.
main_get_device_uid(res, code, body) ==
    /\ pc = "get_device_uid"
    /\ get_device_uid(res, code, body)
    /\ pc' = "get_device_name"
    /\ UNCHANGED <<running, shutdown_sent, pid_file, exit_code, signals,
                   shutdown_requests>>

\* main.c:385: get_device_name, printed only.
main_get_device_name(res, code, body) ==
    /\ pc = "get_device_name"
    /\ get_device_name(res, code, body)
    /\ pc' = "init_cached_device_uid"
    /\ UNCHANGED <<running, shutdown_sent, pid_file, exit_code, signals,
                   shutdown_requests>>

\* A startup that enters the loop whatever init_cached_device_uid returned.
main_init_cached_device_uid_nonfatal(res, code, body) ==
    /\ pc = "init_cached_device_uid"
    /\ init_cached_device_uid(res, code, body)
    /\ pc' = "loop"
    /\ UNCHANGED <<running, shutdown_sent, pid_file, exit_code, signals,
                   shutdown_requests>>

\* main.c:400: init_cached_device_uid, fatal when it fails.
main_init_cached_device_uid(res, code, body) ==
    /\ pc = "init_cached_device_uid"
    /\ init_cached_device_uid(res, code, body)
    /\ pc' = IF api_call'.ret = 1 THEN "loop" ELSE "exit"
    /\ exit_code' = IF api_call'.ret = 1 THEN exit_code ELSE 1
    /\ UNCHANGED <<running, shutdown_sent, pid_file, signals, shutdown_requests>>

\* A loop that does not look at the flag.
run_daemon_loop_ignores_flag ==
    /\ pc = "loop"
    /\ pc' = "tick"
    /\ UNCHANGED <<running, shutdown_sent, pid_file, exit_code, signals,
                   shutdown_requests>>

\* main.c:218: while (running) ...
run_daemon_loop ==
    /\ pc = "loop"
    /\ pc' = IF running = 1 THEN "tick" ELSE "final_send"
    /\ UNCHANGED <<running, shutdown_sent, pid_file, exit_code, signals,
                   shutdown_requests>>

\* main.c:221: nanosleep, then back to the loop condition.
run_daemon_sleep ==
    /\ pc = "sleep"
    /\ pc' = "loop"
    /\ UNCHANGED <<running, shutdown_sent, pid_file, exit_code, signals,
                   shutdown_requests>>

\* main.c:410: the shutdown image sent on the way out of main.
main_final_send(res1, code1, res2, code2) ==
    /\ pc = "final_send"
    /\ IF \/ in_flight = 1
          \/ shutdown_sent = 0 /\ is_session_initialized = 1
                /\ get_cached_device_uid # ""
       THEN ShutdownSend(SHUTDOWN_IMAGE_PATH, get_cached_device_uid,
                         res1, code1, res2, code2)
       ELSE SessIdle /\ UNCHANGED shutdown_requests
    /\ pc' = "cleanup_session"
    /\ UNCHANGED <<running, shutdown_sent, pid_file, exit_code, signals>>

\* main.c:424: cleanup_coolercontrol_session.
main_cleanup_session(jar_written, unlink_ok) ==
    /\ pc = "cleanup_session"
    /\ cleanup_coolercontrol_session(jar_written, unlink_ok)
    /\ pc' = "cleanup_and_exit"
    /\ UNCHANGED <<running, shutdown_sent, pid_file, exit_code, signals,
                   shutdown_requests>>

\* main.c:425: cleanup_and_exit(0), then return result.
main_cleanup_and_exit(res1, code1, res2, code2) ==
    /\ pc = "cleanup_and_exit"
    /\ cleanup_and_exit(res1, code1, res2, code2)
    /\ pc' = "exit"
    /\ exit_code' = 0
    /\ UNCHANGED signals

\* ------------------------------------------------------------------------
\* main.c: single-instance enforcement
\* ------------------------------------------------------------------------

\* Number of daemon processes started in a behaviour; their pids.
MaxInstances == 2
Pids == 1..MaxInstances

\* PID file contents other than the pid of one of the processes: no file,
\* and a file fscanf("%d") cannot parse.
NoFile == 0
Garbage == -1

\* st: where main is. service: getppid() == 1. opt: the command line holds
\* /opt/coolerdash/bin/coolerdash. root: the process runs as root.
NoProc == [st |-> "none", service |-> FALSE, opt |-> FALSE, root |-> FALSE]

InstInit ==
    /\ inst = [p \in Pids |-> NoProc]
    /\ pid_content = NoFile
    /\ check_call = NoCall

InstIdle == UNCHANGED <<inst, pid_content, check_call>>

\* kill(pid, 0) finds a process.
Alive(p) == inst[p].st \in {"check", "write", "startup", "loop"}

\* An unparsable PID file left behind before any instance starts.
garbage_pid_file ==
    /\ pid_content = NoFile
    /\ \A p \in Pids : inst[p].st = "none"
    /\ pid_content' = Garbage
    /\ UNCHANGED <<inst, check_call>>

\* A process enters main: by systemd (the installed binary, as root) or by
\* hand (any command line, any user).
main_start(p, service, opt, root) ==
    /\ inst[p].st = "none"
    /\ service => (opt /\ root)
    /\ inst' = [inst EXCEPT ![p] = [st |-> "check", service |-> service,
                                    opt |-> opt, root |-> root]]
    /\ UNCHANGED <<pid_content, check_call>>

\* main.c:110-124: the existing process counts as the service when its
\* command line contains /opt/coolerdash/bin/coolerdash.
is_existing_service(old) == inst[old].opt

\* main.c:87: check_existing_instance_and_handle, called by process p.
\* dies_on_term: the signalled process is gone within the 5 s wait.
check_existing_instance_and_handle(p, dies_on_term) ==
    LET old == pid_content
        old_alive == old \in Pids /\ Alive(old)
        eperm == old_alive /\ ~inst[p].root /\ inst[old].root
        existing_service == old_alive /\ is_existing_service(old)
        is_service_start == inst[p].service
        ret == IF old_alive /\ ~is_service_start /\ existing_service
               THEN -1 ELSE 0
        sigterm == old_alive /\ ret = 0
        gone_after_term == sigterm /\ ~eperm /\ dies_on_term
        sigkill == sigterm /\ ~eperm /\ ~dies_on_term
        killed == gone_after_term \/ sigkill
        unlinked == old # NoFile /\ ret = 0
    IN  /\ inst[p].st = "check"
        /\ inst' = [q \in Pids |->
                      IF q = p
                      THEN [inst[q] EXCEPT !.st = IF ret = 0 THEN "write"
                                                  ELSE "refused"]
                      ELSE IF killed /\ q = old
                           THEN [inst[q] EXCEPT !.st = "dead"]
                           ELSE inst[q]]
        /\ pid_content' = IF unlinked THEN NoFile ELSE pid_content
        /\ check_call' = [fn |-> "check_existing_instance_and_handle",
                          pid |-> p, is_service_start |-> is_service_start,
                          file |-> old, old_alive |-> old_alive,
                          old_service |-> old_alive /\ inst[old].service,
                          sigterm |-> sigterm, sigkill |-> sigkill,
                          alive_after_term |-> sigterm /\ ~gone_after_term,
                          old_alive_after |-> old_alive /\ ~killed,
                          unlinked |-> unlinked, ret |-> ret]

\* main.c:192: write_pid_file; fopen can fail for a process that is not root.
write_pid_file(p, fopen_ok) ==
    /\ inst[p].st = "write"
    /\ inst[p].root => fopen_ok
    /\ inst' = [inst EXCEPT ![p].st = "startup"]
    /\ pid_content' = IF fopen_ok THEN p ELSE pid_content
    /\ UNCHANGED check_call

\* main.c:371-403: startup fails and main returns 1; the PID file stays.
main_startup_failed(p) ==
    /\ inst[p].st = "startup"
    /\ inst' = [inst EXCEPT ![p].st = "dead"]
    /\ UNCHANGED <<pid_content, check_call>>

\* main.c:408: run_daemon.
main_run_daemon(p) ==
    /\ inst[p].st = "startup"
    /\ inst' = [inst EXCEPT ![p].st = "loop"]
    /\ UNCHANGED <<pid_content, check_call>>

\* main.c:49-69, 424-426: a SIGTERM from outside; cleanup_and_exit unlinks the
\* PID file and the process ends.
main_terminated(p) ==
    /\ inst[p].st \in {"startup", "loop"}
    /\ inst' = [inst EXCEPT ![p].st = "dead"]
    /\ pid_content' = NoFile
    /\ UNCHANGED check_call

\* ------------------------------------------------------------------------
\* gpu_monitor.c: GPU availability and the temperature cache
\* ------------------------------------------------------------------------

MaxGpuClock == 4

\* (long long)(config->gpu_cache_interval * 1000), in milliseconds.
GpuCacheIntervalsMs == {0, 2, 3}

\* What get_current_time_ms can return: milliseconds since the epoch, which
\* lies further back than any cache interval. The wall clock can be set, so
\* two calls need not see increasing times.
GpuClockMs == 3 .. (3 + MaxGpuClock)

\* What "nvidia-smi -L" gives init_gpu_monitor.
GpuProbeOutcomes == {"popen failed", "no line", "gpu"}

\* What the temperature query gives read_gpu_temp: popen fails, fscanf reads
\* no number, or fscanf stores the number read.
GpuReadings == {0, 45, 70}
GpuQueryOutcomes ==
    {<<"popen failed", 0>>, <<"no number", 0>>}
        \cup { <<"number", reading>> : reading \in GpuReadings }

GpuInit ==
    /\ gpu_available = -1
    /\ last_update_ms = 0
    /\ cached_temp = 0
    /\ gpu_call = NoCall

GpuIdle == UNCHANGED <<gpu_available, last_update_ms, cached_temp, gpu_call>>

\* The value init_gpu_monitor stores and returns.
gpu_probe(probe) ==
    IF gpu_available # -1 THEN gpu_available
    ELSE IF probe = "gpu" THEN 1 ELSE 0

init_gpu_monitor(probe) ==
    /\ gpu_available' = gpu_probe(probe)
    /\ gpu_call' = [fn |-> "init_gpu_monitor",
                    available_before |-> gpu_available,
                    probed |-> gpu_available = -1,
                    available |-> gpu_probe(probe),
                    queried |-> FALSE, completed |-> FALSE,
                    now_ms |-> 0, cache_interval_ms |-> 0,
                    last_before |-> last_update_ms,
                    cached_before |-> cached_temp,
                    ret |-> gpu_probe(probe)]
    /\ UNCHANGED <<last_update_ms, cached_temp>>

\* A cache that is never consulted: every call queries the GPU.
cache_always_expired(now_ms, last, cache_interval_ms) == TRUE

cache_expired(now_ms, last, cache_interval_ms) == now_ms - last >= cache_interval_ms

read_gpu_temp(cache_interval_ms, now_ms, probe, query) ==
    LET available == gpu_probe(probe)
        queried   == available = 1
                     /\ cache_expired(now_ms, last_update_ms, cache_interval_ms)
        completed == queried /\ query[1] # "popen failed"
        temp      == IF ~completed THEN cached_temp
                     ELSE IF query[1] = "no number" THEN 0 ELSE query[2]
    IN  /\ gpu_available' = available
        /\ cached_temp' = temp
        /\ last_update_ms' = IF completed THEN now_ms ELSE last_update_ms
        /\ gpu_call' = [fn |-> "read_gpu_temp",
                        available_before |-> gpu_available,
                        probed |-> gpu_available = -1,
                        available |-> available,
                        queried |-> queried, completed |-> completed,
                        now_ms |-> now_ms,
                        cache_interval_ms |-> cache_interval_ms,
                        last_before |-> last_update_ms,
                        cached_before |-> cached_temp,
                        ret |-> IF available = 0 THEN 0 ELSE temp]

\* ------------------------------------------------------------------------
\* coolercontrol.c: the response buffer write_callback fills
\* ------------------------------------------------------------------------

MaxResponseBytes == 4

\* Byte values: the terminator and one other.
ResponseBytes == {0, 7}

RECURSIVE ByteSeqs(_)
ByteSeqs(n) ==
    IF n = 0 THEN {<<>>}
    ELSE LET shorter == ByteSeqs(n - 1)
         IN  shorter \cup { s \o <<b>> : s \in { t \in shorter : Len(t) = n - 1 },
                                          b \in ResponseBytes }

\* What libcurl hands to the callback: size * nmemb bytes, possibly none.
Chunks == ByteSeqs(2)

\* struct http_response before parse_device_fields has allocated it and
\* after it has freed it.
NoResponse == [data |-> <<>>, size |-> -1]

BufInit == response = NoResponse /\ arrived = <<>> /\ cb_call = NoCall

BufIdle == UNCHANGED <<response, arrived, cb_call>>

\* response.data = malloc(1); response.size = 0. malloc does not initialise
\* the byte it returns.
parse_device_fields_malloc(uninitialised) ==
    /\ response = NoResponse
    /\ response' = [data |-> <<uninitialised>>, size |-> 0]
    /\ arrived' = <<>>
    /\ cb_call' = NoCall

\* The buffer after realloc to size + realsize + 1 bytes, memcpy at index
\* size and the terminator at the new size. realloc keeps the first
\* size + 1 bytes, of which the last is overwritten.
store_chunk(data, size, contents) == SubSeq(data, 1, size) \o contents \o <<0>>

\* libcurl ends the transfer after a callback that returned less than it was
\* given, so no callback follows a failed one.
write_callback(contents, realloc_ok) ==
    LET realsize == Len(contents)
    IN  /\ response # NoResponse
        /\ cb_call.fn = "write_callback" => cb_call.realloc_ok
        /\ response.size + realsize <= MaxResponseBytes
        /\ response' =
              IF realloc_ok
              THEN [data |-> store_chunk(response.data, response.size, contents),
                    size |-> response.size + realsize]
              ELSE response
        /\ arrived' = IF realloc_ok THEN arrived \o contents ELSE arrived
        /\ cb_call' = [fn |-> "write_callback", contents |-> contents,
                       realloc_ok |-> realloc_ok, before |-> response,
                       ret |-> IF realloc_ok THEN realsize ELSE 0]

\* free(response.data); response.data = NULL at the end of parse_device_fields.
parse_device_fields_free ==
    /\ response # NoResponse
    /\ response' = NoResponse
    /\ arrived' = <<>>
    /\ cb_call' = NoCall

\* ------------------------------------------------------------------------
\* Specifications
\* ------------------------------------------------------------------------

\* The variables of the functions checked on their own.
UnitsIdle == FormIdle /\ BarIdle /\ InstIdle /\ GpuIdle /\ BufIdle

AllInit ==
    /\ ColorInit /\ GateInit /\ SessInit /\ api_calls = 0
    /\ MainInit /\ PipeInit /\ FlightInit /\ FormInit /\ BarInit /\ InstInit
    /\ GpuInit /\ BufInit

OthersIdle == MainIdle /\ PipeIdle /\ FlightIdle /\ UnitsIdle

GateCall(data) ==
    /\ should_update_display(data)
    /\ ColorIdle
    /\ SessIdle
    /\ UNCHANGED api_calls
    /\ OthersIdle

ColorNext ==
    \E val \in ColorTemps :
        ColorCall(val) /\ GateIdle /\ SessIdle /\ UNCHANGED api_calls
        /\ OthersIdle

SpecColor == AllInit /\ [][ColorNext]_vars

GateNext == \E data \in GateSnapshots : GateCall(data)

SpecGate == AllInit /\ [][GateNext]_vars

FormNext ==
    \E daemon_address \in DaemonAddresses, lcd_brightness \in LcdBrightness,
       lcd_orientation \in LcdOrientation,
       image_path \in ImagePaths \ {"NULL"}, device_uid \in DeviceUids \ {"NULL"} :
        /\ send_image_to_lcd_form(daemon_address, lcd_brightness, lcd_orientation,
                                  image_path, device_uid)
        /\ ColorIdle /\ GateIdle /\ SessIdle /\ UNCHANGED api_calls
        /\ MainIdle /\ PipeIdle /\ FlightIdle /\ BarIdle /\ InstIdle
        /\ GpuIdle /\ BufIdle

SpecForm == AllInit /\ [][FormNext]_vars

BarNext ==
    \E temp \in BarTemps :
        /\ draw_temperature_bar(temp)
        /\ ColorIdle /\ GateIdle /\ SessIdle /\ UNCHANGED api_calls
        /\ MainIdle /\ PipeIdle /\ FlightIdle /\ FormIdle /\ InstIdle
        /\ GpuIdle /\ BufIdle

SpecBar == AllInit /\ [][BarNext]_vars

\* Instances of the daemon starting and stopping on one machine.
InstOthersIdle ==
    /\ ColorIdle /\ GateIdle /\ SessIdle /\ UNCHANGED api_calls
    /\ MainIdle /\ PipeIdle /\ FlightIdle /\ FormIdle /\ BarIdle
    /\ GpuIdle /\ BufIdle

InstLeftover == garbage_pid_file /\ InstOthersIdle

InstStart ==
    /\ \E p \in Pids, service \in BOOLEAN, opt \in BOOLEAN, root \in BOOLEAN :
          main_start(p, service, opt, root)
    /\ InstOthersIdle

InstCheck ==
    /\ \E p \in Pids, dies_on_term \in BOOLEAN :
          check_existing_instance_and_handle(p, dies_on_term)
    /\ InstOthersIdle

InstWrite ==
    /\ \E p \in Pids, fopen_ok \in BOOLEAN : write_pid_file(p, fopen_ok)
    /\ InstOthersIdle

InstRun ==
    /\ \E p \in Pids : main_startup_failed(p) \/ main_run_daemon(p)
    /\ InstOthersIdle

InstStop ==
    /\ \E p \in Pids : main_terminated(p)
    /\ InstOthersIdle

InstNext ==
    \/ InstLeftover
    \/ InstStart
    \/ InstCheck
    \/ InstWrite
    \/ InstRun
    \/ InstStop

SpecInstances == AllInit /\ [][InstNext]_vars

\* The GPU sensor called at any times, in any order.
GpuOthersIdle ==
    /\ ColorIdle /\ GateIdle /\ SessIdle /\ UNCHANGED api_calls
    /\ MainIdle /\ PipeIdle /\ FlightIdle /\ FormIdle /\ BarIdle /\ InstIdle
    /\ BufIdle

GpuInitCall ==
    /\ \E probe \in GpuProbeOutcomes : init_gpu_monitor(probe)
    /\ GpuOthersIdle

GpuReadCall ==
    /\ \E cache_interval_ms \in GpuCacheIntervalsMs, now_ms \in GpuClockMs,
          probe \in GpuProbeOutcomes, query \in GpuQueryOutcomes :
          read_gpu_temp(cache_interval_ms, now_ms, probe, query)
    /\ GpuOthersIdle

GpuNext == GpuInitCall \/ GpuReadCall

SpecGpu == AllInit /\ [][GpuNext]_vars

\* One device query after another, each receiving its response in chunks.
BufOthersIdle ==
    /\ ColorIdle /\ GateIdle /\ SessIdle /\ UNCHANGED api_calls
    /\ MainIdle /\ PipeIdle /\ FlightIdle /\ FormIdle /\ BarIdle /\ InstIdle
    /\ GpuIdle

BufAlloc ==
    /\ \E uninitialised \in ResponseBytes : parse_device_fields_malloc(uninitialised)
    /\ BufOthersIdle

BufChunk ==
    /\ \E contents \in Chunks, realloc_ok \in BOOLEAN :
          write_callback(contents, realloc_ok)
    /\ BufOthersIdle

BufFree == parse_device_fields_free /\ BufOthersIdle

BufNext == BufAlloc \/ BufChunk \/ BufFree

SpecBuffer == AllInit /\ [][BufNext]_vars

ApiInit ==
    /\ api_calls < MaxApiCalls
    /\ api_calls' = api_calls + 1
    /\ \E easy_ok \in BOOLEAN, res \in CurlResults : \E code \in ResponseCodes(res) :
          init_coolercontrol_session(easy_ok, res, code)
    /\ ColorIdle /\ GateIdle /\ OthersIdle

ApiCleanup ==
    /\ api_calls < MaxApiCalls
    /\ api_calls' = api_calls + 1
    /\ \E jar_written \in BOOLEAN, unlink_ok \in BOOLEAN :
          cleanup_coolercontrol_session(jar_written, unlink_ok)
    /\ ColorIdle /\ GateIdle /\ OthersIdle

ApiSend ==
    /\ api_calls < MaxApiCalls
    /\ api_calls' = api_calls + 1
    /\ \E image_path \in ImagePaths, device_uid \in DeviceUids,
          res \in CurlResults : \E code \in ResponseCodes(res) :
          send_image_to_lcd(image_path, device_uid, res, code)
    /\ ColorIdle /\ GateIdle /\ OthersIdle

ApiUpload ==
    /\ api_calls < MaxApiCalls
    /\ api_calls' = api_calls + 1
    /\ \E image_path \in ImagePaths, device_uid \in DeviceUids,
          res \in CurlResults : \E code \in ResponseCodes(res) :
          upload_image_to_device(image_path, device_uid, res, code)
    /\ ColorIdle /\ GateIdle /\ OthersIdle

ApiGetName ==
    /\ api_calls < MaxApiCalls
    /\ api_calls' = api_calls + 1
    /\ \E res \in CurlResults, body \in DeviceLists : \E code \in ResponseCodes(res) :
          get_device_name(res, code, body)
    /\ ColorIdle /\ GateIdle /\ OthersIdle

ApiGetUid ==
    /\ api_calls < MaxApiCalls
    /\ api_calls' = api_calls + 1
    /\ \E res \in CurlResults, body \in DeviceLists : \E code \in ResponseCodes(res) :
          get_device_uid(res, code, body)
    /\ ColorIdle /\ GateIdle /\ OthersIdle

ApiInitCachedUid ==
    /\ api_calls < MaxApiCalls
    /\ api_calls' = api_calls + 1
    /\ \E res \in CurlResults, body \in DeviceLists : \E code \in ResponseCodes(res) :
          init_cached_device_uid(res, code, body)
    /\ ColorIdle /\ GateIdle /\ OthersIdle

ApiRestart ==
    /\ process_restart
    /\ UNCHANGED api_calls
    /\ ColorIdle /\ GateIdle /\ OthersIdle

SessionNext ==
    \/ ApiInit
    \/ ApiCleanup
    \/ ApiSend
    \/ ApiUpload
    \/ ApiGetName
    \/ ApiGetUid
    \/ ApiInitCachedUid
    \/ ApiRestart

SpecSession == AllInit /\ [][SessionNext]_vars

\* The daemon: main from init_coolercontrol_session on, with the signal
\* handler running between two steps of main.
HttpOutcome == {<<"CURLE_OK", 200>>, <<"CURLE_OK", 204>>, <<"CURLE_FAIL", 0>>}
UploadOutcome == {<<"CURLE_OK", 200>>, <<"CURLE_FAIL", 0>>}

Startup ==
    /\ \/ \E easy_ok \in BOOLEAN, o \in HttpOutcome :
             /\ in_flight = 1 => easy_ok
             /\ main_init_session(easy_ok, o[1], o[2])
       \/ \E o \in HttpOutcome, body \in DeviceLists :
             main_get_device_uid(o[1], o[2], body)
       \/ \E o \in HttpOutcome, body \in DeviceLists :
             main_get_device_name(o[1], o[2], body)
       \/ \E o \in HttpOutcome, body \in DeviceLists :
             main_init_cached_device_uid(o[1], o[2], body)
    /\ ColorIdle /\ GateIdle /\ PipeIdle /\ UNCHANGED api_calls /\ UnitsIdle /\ RequestReturns

Loop ==
    /\ run_daemon_loop \/ run_daemon_sleep
    /\ ColorIdle /\ GateIdle /\ SessIdle /\ PipeIdle /\ UNCHANGED api_calls /\ UnitsIdle /\ RequestReturns

Tick ==
    /\ pc = "tick"
    /\ \E cpu_temp \in TickCpuTemps, gpu_temp \in TickGpuTemps,
          outcome \in ComposeOutcomes :
          draw_combined_image_render(cpu_temp, gpu_temp, outcome)
    /\ ColorIdle /\ SessIdle /\ UNCHANGED api_calls /\ UnitsIdle /\ RequestReturns
    /\ UNCHANGED <<running, shutdown_sent, pid_file, exit_code, signals,
                   shutdown_requests>>

Send1 ==
    /\ pc = "rd_send1"
    /\ \E o \in UploadOutcome : render_display_send1(o[1], o[2])
    /\ ColorIdle /\ GateIdle /\ UNCHANGED api_calls /\ UnitsIdle /\ RequestReturns
    /\ UNCHANGED <<running, shutdown_sent, pid_file, exit_code, signals,
                   shutdown_requests, disk_image, prev_tick>>

Send2 ==
    /\ pc = "rd_send2"
    /\ \E o \in UploadOutcome : render_display_send2(o[1], o[2])
    /\ ColorIdle /\ GateIdle /\ UNCHANGED api_calls /\ UnitsIdle /\ RequestReturns
    /\ UNCHANGED <<running, shutdown_sent, pid_file, exit_code, signals,
                   shutdown_requests, disk_image, prev_tick>>

Upload ==
    /\ pc = "dci_upload"
    /\ \E o \in UploadOutcome : draw_combined_image_upload(o[1], o[2])
    /\ ColorIdle /\ GateIdle /\ UNCHANGED api_calls /\ UnitsIdle /\ RequestReturns
    /\ UNCHANGED <<running, shutdown_sent, pid_file, exit_code, signals,
                   shutdown_requests, disk_image, prev_tick>>

Shutdown ==
    /\ \/ \E o1 \in UploadOutcome, o2 \in UploadOutcome :
             main_final_send(o1[1], o1[2], o2[1], o2[2])
       \/ \E jar_written \in BOOLEAN, unlink_ok \in BOOLEAN :
             /\ main_cleanup_session(jar_written, unlink_ok)
       \/ \E o1 \in UploadOutcome, o2 \in UploadOutcome :
             main_cleanup_and_exit(o1[1], o1[2], o2[1], o2[2])
    /\ ColorIdle /\ GateIdle /\ PipeIdle /\ UNCHANGED api_calls /\ UnitsIdle /\ RequestReturns

\* The handler's curl_easy_perform on curl_handle finds main's transfer still
\* in flight when it interrupted one. The handle is then used re-entrantly,
\* which libcurl leaves undefined: the handler's transfer starts on it
\* (started) or is refused.
HandlerRequest(started) ==
    /\ overlapped' = (overlapped
                      \/ (/\ in_flight = 1
                          /\ shutdown_requests' > shutdown_requests
                          /\ started))
    /\ UNCHANGED in_flight

Signal ==
    /\ pc # "exit"
    /\ signals < MaxSignals
    /\ signals' = signals + 1
    /\ \E o1 \in UploadOutcome, o2 \in UploadOutcome :
          cleanup_and_exit(o1[1], o1[2], o2[1], o2[2])
    /\ \E started \in BOOLEAN : HandlerRequest(started)
    /\ UNCHANGED <<pc, exit_code>>
    /\ ColorIdle /\ GateIdle /\ PipeIdle /\ UNCHANGED api_calls /\ UnitsIdle

Next ==
    \/ Startup
    \/ Loop
    \/ Tick
    \/ Send1
    \/ Send2
    \/ Upload
    \/ Shutdown
    \/ Signal

Spec == AllInit /\ [][Next]_vars

\* The daemon with main's requests taking time: a signal may be handled
\* while main is inside curl_easy_perform.
BeginRequest ==
    /\ main_curl_easy_perform
    /\ ColorIdle /\ GateIdle /\ SessIdle /\ PipeIdle /\ MainIdle
    /\ UNCHANGED api_calls /\ UnitsIdle

InterruptNext ==
    \/ Next
    \/ BeginRequest

SpecInterrupt == AllInit /\ [][InterruptNext]_vars

\* The daemon whose main thread keeps running: every call it makes returns.
MainStep == Startup \/ Loop \/ Tick \/ Send1 \/ Send2 \/ Upload \/ Shutdown

SpecLive == AllInit /\ [][Next]_vars /\ WF_vars(MainStep)


\* ------------------------------------------------------------------------
\* Claims
\* ------------------------------------------------------------------------

TickDone == pc = "sleep"

UploadCalls == Len(tick.rd_sends) + tick.dci_calls

\* C1: a tick whose change gate rejects the snapshot writes no image and
\* attempts no upload; so two consecutive ticks with the same snapshot, the
\* first of which wrote the image, make one image write and at most two
\* upload requests together.
C1_RejectedTickIsNoOp ==
    /\ (TickDone /\ tick.gate = 0) => (~tick.wrote /\ UploadCalls = 0)
    /\ (TickDone /\ tick.same_as_prev /\ prev_tick.gate = 1 /\ prev_tick.wrote)
          => /\ ~tick.wrote
             /\ prev_tick.requests + TickRequests <= 2

\* C2: a tick whose gate accepts, whose image is written and whose session is
\* ready makes exactly two upload calls, counting those of render_display and
\* of draw_combined_image.
C2_ExactlyTwoUploads ==
    (TickDone /\ tick.gate = 1 /\ tick.wrote /\ tick.ready) => UploadCalls = 2

\* C3: once render_display's first upload call has returned, the second one
\* is made whatever the first returned, and render_display returns 1 after
\* the two calls whatever they returned.
C3_DoubleSendFixed ==
    /\ Len(tick.rd_sends) = 1 => pc = "rd_send2"
    /\ Len(tick.rd_sends) = 2 => tick.render_result = 1
    /\ Len(tick.rd_sends) > 0 => (tick.wrote /\ tick.ready)

C3_Witness ==
    /\ tick.rd_sends = <<1, 0>>
    /\ tick.render_result = 1

GateCalled == gate_call.fn = "should_update_display"

\* C4: the first call of should_update_display returns 1 whatever the
\* snapshot, stores that snapshot in last_data and clears first_run; only the
\* call made on the initial last_data takes the first-call branch.
C4_FirstCallAccepts ==
    GateCalled =>
        /\ first_run = 0
        /\ gate_call.first = 1 <=> gate_call.prev = LastDataInit
        /\ gate_call.first = 1 => gate_call.ret = 1 /\ last_data = gate_call.data

\* A first call whose snapshot is within tolerance of the initial last_data
\* in every field, accepted all the same.
C4_Witness ==
    /\ GateCalled
    /\ gate_call.first = 1
    /\ \A f \in DOMAIN gate_call.data :
          fabsf(gate_call.data[f] - gate_call.prev[f]) <= CHANGE_TOLERANCE_TEMP
    /\ gate_call.ret = 1
    /\ last_data = gate_call.data
    /\ first_run = 0

TempFields == {"cpu_temp", "gpu_temp", "coolant_temp"}
UsageFields == {"cpu_usage", "ram_usage", "gpu_usage", "gpu_ram_usage"}

C6_LastDataOnlyOnAccept ==
    GateCalled =>
        /\ gate_call.ret = 1 => last_data = gate_call.data
        /\ gate_call.ret = 0 => last_data = gate_call.prev

\* A rejected snapshot that differs from the stored one, which is kept.
C6_Witness ==
    /\ GateCalled
    /\ gate_call.ret = 0
    /\ gate_call.data # gate_call.prev
    /\ last_data = gate_call.prev

\* C7: lerp_temp_color returns bucket 0 up to and including the green
\* threshold, 1 up to and including the orange one, 2 up to and including the
\* red one and 3 above it: one of exactly four colours.
C7_ColorBuckets ==
    color_out # -1 =>
        /\ color_out \in 0..3
        /\ color_val <= TEMP_THRESHOLD_GREEN => color_out = 0
        /\ (TEMP_THRESHOLD_GREEN < color_val /\ color_val <= TEMP_THRESHOLD_ORANGE)
              => color_out = 1
        /\ (TEMP_THRESHOLD_ORANGE < color_val /\ color_val <= TEMP_THRESHOLD_RED)
              => color_out = 2
        /\ color_val > TEMP_THRESHOLD_RED => color_out = 3

\* A temperature equal to the orange threshold, mapped to the lower bucket.
C7_Witness ==
    /\ color_val = TEMP_THRESHOLD_ORANGE
    /\ color_out = 1

InitCalled == api_call.fn = "init_coolercontrol_session"

\* C8: init_coolercontrol_session returns 1 iff the login request completes
\* with response code 200 or 204, and then the session is ready; on any other
\* outcome it returns 0 and a session that was not ready stays not ready.
C8_InitIffLoginOk ==
    InitCalled =>
        /\ api_call.ret = 1 <=>
              /\ api_call.easy_ok
              /\ api_call.res = "CURLE_OK"
              /\ api_call.code \in {200, 204}
        /\ api_call.ret = 1 => is_session_initialized = 1 /\ curl_handle # NULL
        /\ (api_call.ret = 0 /\ api_call.pre.session_initialized = 0)
              => is_session_initialized = 0

\* A login answered 204: the session is ready.
C8_Witness ==
    /\ InitCalled
    /\ api_call.code = 204
    /\ api_call.ret = 1
    /\ api_call.pre.session_initialized = 0
    /\ is_session_initialized = 1

CleanupCalled == api_call.fn = "cleanup_coolercontrol_session"

\* C9 as stated: a cleanup call that follows a cleanup call is a no-op, also
\* when the first one could not delete the cookie file.
C9_SecondCleanupNoOp ==
    (CleanupCalled /\ api_call.pre.after = "cleanup_coolercontrol_session")
        => api_call.ops = <<>>

\* C9 amended: a cleanup call made once a call has deleted the cookie file is a
\* no-op: it performs no operation and changes nothing. Any other cleanup call
\* releases the HTTP client if there is one, runs the global cleanup, tries to
\* delete the cookie file and leaves the session not ready; it arms the no-op
\* guard iff the delete succeeded. No handle is released twice.
C9_CleanupGuarded ==
    /\ ~double_release
    /\ CleanupCalled =>
          IF api_call.pre.cleanup_done = 1
          THEN /\ api_call.ops = <<>>
               /\ curl_handle = api_call.pre.curl_handle
               /\ session_initialized = api_call.pre.session_initialized
               /\ cookie_file = api_call.pre.cookie_file
               /\ cleanup_done = 1
          ELSE /\ api_call.ops =
                    (IF api_call.pre.curl_handle # NULL
                     THEN <<"curl_easy_cleanup">> ELSE <<>>)
                    \o <<"curl_global_cleanup", "unlink">>
               /\ curl_handle = NULL
               /\ session_initialized = 0
               /\ cleanup_done = 1 <=> api_call.unlinked
               /\ api_call.unlinked => ~cookie_file

\* A cleanup after one that deleted the cookie file: nothing happens.
C9_Witness ==
    /\ CleanupCalled
    /\ api_call.pre.after = "cleanup_coolercontrol_session"
    /\ api_call.pre.cleanup_done = 1
    /\ api_call.ops = <<>>
    /\ curl_handle = NULL
    /\ ~cookie_file

RequestFns == {"send_image_to_lcd", "upload_image_to_device",
               "get_device_uid", "get_device_name", "init_cached_device_uid"}

\* C10: send_image_to_lcd, upload_image_to_device, get_device_uid and
\* get_device_name return 0 without an HTTP request while the session is not
\* ready; every upload or device-list request is made on a ready session.
C10_NoRequestUnlessReady ==
    api_call.fn \in RequestFns =>
        /\ api_call.pre.session_initialized = 0
              => api_call.ret = 0 /\ api_call.ops = <<>>
        /\ api_call.ops # <<>>
              => api_call.pre.session_initialized = 1 /\ api_call.pre.curl_handle # NULL

\* An upload asked for on a handle whose login failed: refused.
C10_Witness ==
    /\ api_call.fn = "send_image_to_lcd"
    /\ api_call.pre.session_initialized = 0
    /\ api_call.pre.curl_handle # NULL
    /\ api_call.image_path = IMAGE_PATH
    /\ api_call.device_uid = KRAKEN_UID
    /\ api_call.code = 200
    /\ api_call.ret = 0
    /\ api_call.ops = <<>>

SendFns == {"send_image_to_lcd", "upload_image_to_device"}

\* C11: an upload call on a ready session (handle present, arguments given)
\* makes the PUT request and returns 1 iff the request completes with response
\* code 200; any other code, 204 included, or a transport failure returns 0,
\* and the session is ready afterwards as before.
C11_UploadOkIff200 ==
    (/\ api_call.fn \in SendFns
     /\ api_call.pre.session_initialized = 1
     /\ api_call.pre.curl_handle # NULL
     /\ api_call.image_path # "NULL"
     /\ api_call.device_uid # "NULL")
        => /\ Len(api_call.ops) = 1
           /\ api_call.ret = 1 <=>
                 (api_call.res = "CURLE_OK" /\ api_call.code = 200)
           /\ api_call.ret \in {0, 1}
           /\ is_session_initialized = 1
           /\ curl_handle = api_call.pre.curl_handle

\* An upload answered 204 on a ready session: refused, the session still ready.
C11_Witness ==
    /\ api_call.fn = "send_image_to_lcd"
    /\ api_call.pre.session_initialized = 1
    /\ api_call.pre.curl_handle # NULL
    /\ api_call.image_path = IMAGE_PATH
    /\ api_call.device_uid = KRAKEN_UID
    /\ api_call.res = "CURLE_OK"
    /\ api_call.code = 204
    /\ api_call.ret = 0
    /\ is_session_initialized = 1

LoopPcs == {"loop", "tick", "rd_send1", "rd_send2", "dci_upload", "sleep"}

\* C12: when init_coolercontrol_session fails, or init_cached_device_uid
\* fails, main returns 1 and no tick has run; the daemon loop is only ever
\* entered with a ready session and a non-empty cached device UID, and a
\* process that returned 1 never ran a tick.
C12_StartupFatal ==
    /\ (api_call.fn \in {"init_coolercontrol_session", "init_cached_device_uid"}
        /\ api_call.ret = 0)
          => (pc = "exit" /\ exit_code = 1 /\ tick = NoTick)
    /\ exit_code = 1 => (pc = "exit" /\ tick = NoTick)
    /\ (pc \in LoopPcs \/ tick # NoTick)
          => /\ get_cached_device_uid \notin {"", "NULL"}
             /\ pc \in LoopPcs => (is_session_initialized = 1 /\ curl_handle # NULL)

\* A login that succeeded followed by a device list without a usable LCD
\* device: main returned 1 before any tick.
C12_Witness ==
    /\ pc = "exit"
    /\ exit_code = 1
    /\ api_call.fn = "init_cached_device_uid"
    /\ api_call.pre.session_initialized = 1
    /\ api_call.ops # <<>>
    /\ api_call.ret = 0
    /\ tick = NoTick

DiscoveryFns == {"get_device_uid", "get_device_name"}

LiquidctlIndexes(body) == { i \in 1..Len(body) : body[i].type = "Liquidctl" }

FirstLiquidctl(body) ==
    CHOOSE i \in LiquidctlIndexes(body) : \A j \in LiquidctlIndexes(body) : i <= j

\* C13: a device discovery that queries /devices returns 1 iff the response
\* is 200 and lists a device of type "Liquidctl", and then it returns the uid
\* (get_device_uid) or the name (get_device_name) of the first such device.
C13_FirstLiquidctl ==
    (api_call.fn \in DiscoveryFns /\ api_call.ops # <<>>) =>
        LET listed == /\ api_call.res = "CURLE_OK"
                      /\ api_call.code = 200
                      /\ LiquidctlIndexes(api_call.body) # {}
        IN  /\ api_call.ret = 1 <=> listed
            /\ (listed /\ api_call.fn = "get_device_uid")
                  => api_call.uid = api_call.body[FirstLiquidctl(api_call.body)].uid
            /\ (listed /\ api_call.fn = "get_device_name")
                  => api_call.name = api_call.body[FirstLiquidctl(api_call.body)].name

\* C14: a non-empty cached device UID is the uid of a device that the last
\* answered /devices query listed with type "Liquidctl".
C14_CachedUidListed ==
    get_cached_device_uid # "" => get_cached_device_uid \in listed_uids

\* The daemon in its loop, with the uid cached from a list of two Liquidctl
\* devices.
C14_Witness ==
    /\ pc \in LoopPcs
    /\ get_cached_device_uid = "uidB"
    /\ listed_uids = {"uidA", "uidB"}

C17_ShutdownSentOnce == shutdown_requests <= 2

ShutdownPcs == {"final_send", "cleanup_session", "cleanup_and_exit", "exit"}

Stopped ==
    /\ pc = "exit"
    /\ exit_code = 0
    /\ is_session_initialized = 0
    /\ curl_handle = NULL
    /\ ~pid_file

C19_ComposeFailureHarmless ==
    [][(pc = "tick" /\ pc' # "tick" /\ tick'.gate = 1 /\ ~tick'.wrote)
          => /\ tick'.render_result = 0
             /\ pc' = "sleep"
             /\ disk_image.state = "png" => disk_image' = disk_image]_vars

\* C20: every upload request for the display image is made when the image
\* file holds an image this process wrote successfully.
C20_WriteBeforeUpload ==
    (/\ api_call.fn \in SendFns
     /\ api_call.image_path = IMAGE_PATH
     /\ api_call.ops # <<>>)
        => disk_image.state = "png"

TickPcs == {"tick", "rd_send1", "rd_send2", "dci_upload"}

\* C21: a tick always ends at the sleep of the loop, whatever its uploads
\* returned, whatever the sensors read and whether or not the image was
\* composed; the sleep is followed by the loop condition and the condition,
\* while running is 1, by the next tick. The loop is left only at its
\* condition, with running = 0 after a signal was handled, and nothing in
\* the loop makes main return.
C21_TransientNeverStops ==
    [][/\ pc \in TickPcs => pc' \in TickPcs \cup {"sleep"}
       /\ pc = "sleep" => pc' \in {"sleep", "loop"}
       /\ (pc = "loop" /\ running = 1) => pc' \in {"loop", "tick"}
       /\ (pc \in LoopPcs /\ pc' \notin LoopPcs)
             => (pc = "loop" /\ running = 0 /\ signals > 0 /\ pc' = "final_send")
       /\ pc \in LoopPcs => exit_code' = exit_code]_vars

\* The tick after one that read 0 from every sensor and whose two uploads
\* failed is about to start.
C21_Witness ==
    /\ pc = "tick"
    /\ running = 1
    /\ tick.ready
    /\ tick.rd_sends = <<0, 0>>
    /\ tick.dci_calls = 1
    /\ tick.data.cpu_temp = 0
    /\ tick.data.gpu_temp = 0

\* C22: no request is ever started on the shared handle while another one
\* is in flight on it; in particular the signal handler, run while main is
\* inside a login, device-list or upload request, starts none.
C22_NoConcurrentRequests == ~overlapped

\* C23: every upload request is a PUT to
\* {daemon_address}/devices/{uid}/settings/lcd/lcd/images for the uid passed
\* in, and its form has the field mode = "image", the fields brightness and
\* orientation holding the decimal strings of the configured integers, and
\* the images[] part naming the image file.
C23_UploadForm ==
    upload_form # NoForm =>
        LET r == upload_form.request
        IN  /\ r.method = "PUT"
            /\ r.url = upload_form.daemon_address \o "/devices/"
                          \o upload_form.device_uid \o "/settings/lcd/lcd/images"
            /\ Len(r.form) = 4
            /\ r.form[1] = [name |-> "mode", data |-> "image"]
            /\ r.form[2] = [name |-> "brightness",
                            data |-> ToString(upload_form.lcd_brightness)]
            /\ r.form[3] = [name |-> "orientation",
                            data |-> ToString(upload_form.lcd_orientation)]
            /\ r.form[4].name = "images[]"
            /\ r.form[4].filedata = upload_form.image_path

\* The request built for brightness 80 and orientation 0.
C23_Witness ==
    /\ upload_form # NoForm
    /\ upload_form.lcd_brightness = 80
    /\ upload_form.lcd_orientation = 0
    /\ upload_form.request.form[2].data = "80"
    /\ upload_form.request.form[3].data = "0"
    /\ upload_form.device_uid = "uidB"

BarDrawn == bar_call # NoBar

\* C24: the fill width of a temperature bar is temp / 100 * BAR_WIDTH cut to
\* whole pixels and limited to 0 .. BAR_WIDTH: 0 for a temperature of 0 or
\* below, BAR_WIDTH for 100 C or above, and in between the number of whole
\* pixels in temp / 100 * BAR_WIDTH.
C24_BarWidthClamped ==
    BarDrawn =>
        LET t == bar_call.temp
            w == bar_call.safe_val_w
        IN  /\ w \in 0..BAR_WIDTH
            /\ t <= 0 => w = 0
            /\ t >= 1000 => w = BAR_WIDTH
            /\ (t > 0 /\ t < 1000)
                  => (w * 1000 <= t * BAR_WIDTH /\ t * BAR_WIDTH < (w + 1) * 1000)

\* A bar for a temperature far above 100 C, filled to BAR_WIDTH.
C24_Witness ==
    /\ BarDrawn
    /\ bar_call.temp = MaxSensorTemp
    /\ bar_call.val_w > BAR_WIDTH
    /\ bar_call.safe_val_w = BAR_WIDTH

\* A step of main that makes an upload request for the display image.
DisplayUploadStep ==
    /\ pc \in {"rd_send1", "rd_send2", "dci_upload"}
    /\ pc' # pc
    /\ api_call'.image_path = IMAGE_PATH
    /\ api_call'.ops # <<>>

\* C25: once the signal handler has sent the shutdown image, no upload
\* request for the display image is made any more.
C25_ShutdownImageLast ==
    [][(shutdown_sent = 1 /\ shutdown_requests > 0) => ~DisplayUploadStep]_vars

\* C26: after a tick, when the image file holds an image this process
\* wrote, the change gate's last_data is the snapshot that image shows.
C26_GateMatchesDisk ==
    (TickDone /\ disk_image.state = "png") => last_data = disk_image.data

\* The sample of the next call differs from the sample of the last call by
\* less than the tolerance in every field.
SmallStep ==
    /\ GateCalled
    /\ gate_call' # gate_call
    /\ \A f \in TempFields :
          fabsf(gate_call'.data[f] - gate_call.data[f]) < CHANGE_TOLERANCE_TEMP
    /\ \A f \in UsageFields :
          fabsf(gate_call'.data[f] - gate_call.data[f]) < CHANGE_TOLERANCE_USAGE

C28_ReadyImpliesHandle == session_initialized = 1 => curl_handle # NULL

\* C29: a cleanup_coolercontrol_session call that directly follows an
\* init_coolercontrol_session call which made the session ready leaves the
\* session not ready and has released the client handle, whether it is the
\* first such call or a later one.
C29_EveryCloseReleases ==
    (/\ CleanupCalled
     /\ api_call.pre.after = "init_coolercontrol_session"
     /\ api_call.pre.session_initialized = 1
     /\ api_call.pre.curl_handle # NULL)
        => /\ session_initialized = 0
           /\ curl_handle = NULL
           /\ api_call.pre.curl_handle \in released

\* C30: every upload request of a process, from the tick pipeline or from a
\* shutdown send, is addressed to the device uid cached at startup.
C30_UploadsUseCachedUid ==
    (api_call.fn \in SendFns /\ api_call.ops # <<>>)
        => api_call.device_uid = get_cached_device_uid

InLoop == { p \in Pids : inst[p].st = "loop" }

\* C31: at most one instance of the daemon is in the daemon loop at a time.
C31_SingleInstance == Cardinality(InLoop) <= 1

CheckCalled == check_call.fn = "check_existing_instance_and_handle"

\* C32: check_existing_instance_and_handle, by start type. A systemd start
\* that finds a live instance sends SIGTERM, sends SIGKILL iff the instance
\* is still alive after the wait, leaves it dead and returns 0. A manual
\* start that finds the systemd service alive returns -1, sends no signal
\* and keeps the PID file; one that finds another manual instance alive
\* terminates it and returns 0. A PID file that cannot be parsed or names no
\* live process is removed, without a signal, and 0 is returned.
C32_InstanceHandling ==
    CheckCalled =>
        /\ (check_call.old_alive /\ check_call.is_service_start)
              => /\ check_call.sigterm
                 /\ check_call.sigkill <=> check_call.alive_after_term
                 /\ ~check_call.old_alive_after
                 /\ check_call.ret = 0
        /\ (check_call.old_alive /\ ~check_call.is_service_start
               /\ check_call.old_service)
              => /\ check_call.ret = -1
                 /\ ~check_call.sigterm /\ ~check_call.sigkill
                 /\ ~check_call.unlinked
        /\ (check_call.old_alive /\ ~check_call.is_service_start
               /\ ~check_call.old_service)
              => /\ check_call.sigterm
                 /\ ~check_call.old_alive_after
                 /\ check_call.ret = 0
        /\ (check_call.file # NoFile /\ ~check_call.old_alive)
              => /\ check_call.unlinked
                 /\ ~check_call.sigterm /\ ~check_call.sigkill
                 /\ check_call.ret = 0

\* The parts of C32 about a systemd start, about a manual start that finds
\* the systemd service, and about a stale or unparsable PID file.
C32_OtherCases ==
    CheckCalled =>
        /\ (check_call.old_alive /\ check_call.is_service_start)
              => /\ check_call.sigterm
                 /\ check_call.sigkill <=> check_call.alive_after_term
                 /\ ~check_call.old_alive_after
                 /\ check_call.ret = 0
        /\ (check_call.old_alive /\ ~check_call.is_service_start
               /\ check_call.old_service)
              => /\ check_call.ret = -1
                 /\ ~check_call.sigterm /\ ~check_call.sigkill
                 /\ ~check_call.unlinked
        /\ (check_call.file # NoFile /\ ~check_call.old_alive)
              => /\ check_call.unlinked
                 /\ ~check_call.sigterm /\ ~check_call.sigkill
                 /\ check_call.ret = 0

\* C33: read_gpu_temp queries the GPU exactly when the GPU is available and
\* at least the cache interval has passed since the last completed query,
\* and otherwise returns the cached value and leaves it unchanged; once any
\* call has returned the availability is known and it is probed only while
\* unknown; with no GPU read_gpu_temp returns 0 and queries nothing.
C33_GpuCaching ==
    /\ gpu_call.fn = "read_gpu_temp" =>
          /\ gpu_call.queried =>
                gpu_call.now_ms - gpu_call.last_before >= gpu_call.cache_interval_ms
          /\ (gpu_call.available = 1 /\ ~gpu_call.queried) =>
                /\ gpu_call.now_ms - gpu_call.last_before < gpu_call.cache_interval_ms
                /\ gpu_call.ret = gpu_call.cached_before
                /\ cached_temp = gpu_call.cached_before
                /\ last_update_ms = gpu_call.last_before
          /\ gpu_call.available = 0 =>
                /\ gpu_call.ret = 0
                /\ ~gpu_call.queried
    /\ gpu_call.fn # "none" =>
          /\ gpu_available \in {0, 1}
          /\ gpu_call.probed <=> gpu_call.available_before = -1
          /\ ~gpu_call.probed => gpu_available = gpu_call.available_before

\* A read inside the cache interval after a completed query that stored a
\* temperature: the stored temperature comes back.
C33_Witness ==
    /\ gpu_call.fn = "read_gpu_temp"
    /\ gpu_call.available = 1
    /\ ~gpu_call.queried
    /\ gpu_call.last_before > 0
    /\ gpu_call.ret = gpu_call.cached_before
    /\ gpu_call.ret > 0

\* The buffer is the stored chunks followed by the terminator.
ResponseIsString ==
    /\ response.size = Len(arrived)
    /\ Len(response.data) = response.size + 1
    /\ SubSeq(response.data, 1, response.size) = arrived
    /\ response.data[response.size + 1] = 0

\* A callback that could not grow the buffer returned 0 and left data and
\* size as they were.
FailedCallbackKeepsBuffer ==
    (cb_call.fn = "write_callback" /\ ~cb_call.realloc_ok)
        => (cb_call.ret = 0 /\ response = cb_call.before)

\* C34: after any sequence of received chunks, the empty one included, the
\* response buffer holds the chunks in arrival order, size is the sum of
\* their lengths and the byte at index size is the terminator; a callback
\* whose realloc fails returns 0 and leaves data and size unchanged.
C34_ResponseBuffer ==
    /\ response # NoResponse => ResponseIsString
    /\ FailedCallbackKeepsBuffer

\* The same once a callback has stored a chunk (which may be empty).
C34_AfterStoredChunk ==
    /\ (response # NoResponse /\ cb_call.fn = "write_callback"
           /\ (cb_call.realloc_ok \/ cb_call.before.size > 0))
          => ResponseIsString
    /\ FailedCallbackKeepsBuffer

=============================================================================
